---- MODULE Spec2Model ----
(***************************************************************************)
(* A model of blilys, a command-line client for Philips Hue bridges.       *)
(*                                                                         *)
(*   src/src/config.rs   Config: load, save and print of config.toml       *)
(*   src/src/main.rs     main: bridge resolution, pairing, dispatch        *)
(*                                                                         *)
(* One process invocation is a run of main from pc = "load" to             *)
(* pc = "done"; the configuration file outlives it and NewInvocation       *)
(* starts the next run on the file the last one left.                      *)
(*                                                                         *)
(* An Option<T> is a sequence: <<>> is None and <<x>> is Some(x).  Text is *)
(* a sequence of one-character strings; a TOML document is a sequence of   *)
(* lines, each a sequence of tokens.  Only IPv4 addresses are modelled.    *)
(***************************************************************************)
EXTENDS Integers, Sequences, FiniteSets, TLC

VARIABLES
    file,           \* the configuration file: [exists, text]
    file0,          \* the file as it was when this invocation started
    opt,            \* the parsed command line: [bridge, cmd]
    pc,             \* position of main
    outcome,        \* "running", "ok" (exit 0), "err" (Err returned), "panic"
    failedAt,       \* Option: the step that failed
    config,         \* main's `config`
    loaded,         \* the Configuration as Config::from_file returned it
    unauth_bridge,  \* Option: main's `unauth_bridge`
    bridge,         \* Option: main's `bridge`
    discoveries,    \* calls of Bridge::discover_required in this invocation
    registrations,  \* register_user requests sent in this invocation
    registered,     \* Option: the Bridge that register_user returned
    writes,         \* calls of fs::write in this invocation
    calls,          \* light/group bridge calls issued in this invocation
    sleeps,         \* pauses taken in this invocation
    request,        \* Option: the light/group call main is blocked in
    sleeping,       \* Option: the pause (ms) main is blocked in
    stdout,         \* documents printed to standard output
    stderr,         \* lines printed to standard error
    stdinReads      \* lines read from standard input

vars == <<file, file0, opt, pc, outcome, failedAt, config, loaded,
          unauth_bridge, bridge, discoveries, registrations, registered,
          writes, calls, sleeps, request, sleeping, stdout, stderr,
          stdinReads>>

----------------------------------------------------------------------------
(* Bounds of the model.                                                    *)

\* Light and group ids on the command line are 1..MaxId.
MaxId == 1
\* At most MaxCalls light/group calls are followed per invocation.
MaxCalls == 4
\* Credentials of the round-trip specification have at most MaxUserLen characters.
MaxUserLen == 2

----------------------------------------------------------------------------
(* Option<T>.                                                              *)

None == <<>>
Some(x) == <<x>>
IsSome(o) == Len(o) = 1
IsNone(o) == Len(o) = 0

----------------------------------------------------------------------------
(* Text conversions: IpAddr <-> string and the TOML basic string.          *)

Digits == <<"0", "1", "2", "3", "4", "5", "6", "7", "8", "9">>
IsDigit(c) == \E d \in 1..10 : Digits[d] = c
DigitVal(c) == (CHOOSE d \in 1..10 : Digits[d] = c) - 1

RECURSIVE NatToString(_)
NatToString(n) ==
    IF n < 10 THEN <<Digits[n + 1]>>
    ELSE NatToString(n \div 10) \o <<Digits[(n % 10) + 1]>>

\* <IpAddr as Display>::fmt for an IPv4 address: the four octets in decimal.
IpToString(ip) ==
    NatToString(ip[1]) \o <<".">> \o NatToString(ip[2]) \o <<".">>
        \o NatToString(ip[3]) \o <<".">> \o NatToString(ip[4])

RECURSIVE SplitDots(_)
SplitDots(s) ==
    IF \A i \in 1..Len(s) : s[i] # "."
    THEN <<s>>
    ELSE LET i == CHOOSE k \in 1..Len(s) :
                      s[k] = "." /\ \A j \in 1..(k - 1) : s[j] # "."
         IN  <<SubSeq(s, 1, i - 1)>> \o SplitDots(SubSeq(s, i + 1, Len(s)))

RECURSIVE StringToNat(_)
StringToNat(s) ==
    IF Len(s) = 0 THEN 0
    ELSE 10 * StringToNat(SubSeq(s, 1, Len(s) - 1)) + DigitVal(s[Len(s)])

\* One octet: one to three digits, no leading zero, at most 255.
IsOctet(s) ==
    /\ Len(s) \in 1..3
    /\ \A i \in 1..Len(s) : IsDigit(s[i])
    /\ (Len(s) > 1 => s[1] # "0")
    /\ StringToNat(s) <= 255

\* <IpAddr as FromStr>::from_str: Some(ip), or None for a parse error.
StringToIp(s) ==
    LET parts == SplitDots(s)
    IN  IF Len(parts) = 4 /\ \A i \in 1..4 : IsOctet(parts[i])
        THEN Some(<<StringToNat(parts[1]), StringToNat(parts[2]),
                    StringToNat(parts[3]), StringToNat(parts[4])>>)
        ELSE None

Quote == "\""
Backslash == "\\"

EscapeChar(c) ==
    IF c = Quote \/ c = Backslash THEN <<Backslash, c>> ELSE <<c>>

\* A writer that escapes the quote and forgets the backslash.
RECURSIVE EscapeQuotesOnly(_)
EscapeQuotesOnly(s) ==
    IF Len(s) = 0 THEN <<>>
    ELSE (IF Head(s) = Quote THEN <<Backslash, Quote>> ELSE <<Head(s)>>)
             \o EscapeQuotesOnly(Tail(s))

\* The TOML writer's escaping of a basic string's characters.
RECURSIVE Escape(_)
Escape(s) ==
    IF Len(s) = 0 THEN <<>> ELSE EscapeChar(Head(s)) \o Escape(Tail(s))

\* A basic string as toml::to_string writes it.
TomlString(s) == <<Quote>> \o Escape(s) \o <<Quote>>

\* The TOML reader on the characters after the opening quote: Some(string)
\* when the closing quote ends the value, None (a parse error) otherwise.
RECURSIVE Unescape(_, _, _)
Unescape(t, i, acc) ==
    IF i > Len(t) THEN None
    ELSE IF t[i] = Quote THEN (IF i = Len(t) THEN Some(acc) ELSE None)
    ELSE IF t[i] = Backslash
         THEN IF i + 1 <= Len(t) /\ t[i + 1] \in {Quote, Backslash}
              THEN Unescape(t, i + 2, Append(acc, t[i + 1]))
              ELSE None
    ELSE Unescape(t, i + 1, Append(acc, t[i]))

ParseTomlString(t) ==
    IF Len(t) >= 2 /\ t[1] = Quote THEN Unescape(t, 2, <<>>) ELSE None

----------------------------------------------------------------------------
(* Config (src/src/config.rs).                                             *)

ConfigPath == "config.toml"

\* Default::default()
DefaultConfig == [path |-> None, bridge |-> [ip |-> None, username |-> None]]

BridgeHeader == <<"[bridge]">>

\* toml::to_string(self): `path` is skipped, a None field is left out.
TomlToString(c) ==
    <<BridgeHeader>>
        \o (IF IsSome(c.bridge.ip)
            THEN << <<"ip", "=">> \o TomlString(IpToString(c.bridge.ip[1])) >>
            ELSE <<>>)
        \o (IF IsSome(c.bridge.username)
            THEN << <<"username", "=">> \o TomlString(c.bridge.username[1]) >>
            ELSE <<>>)

KeyLines(text, key) == {i \in 2..Len(text) : text[i][1] = key}

\* The value of `key` in the [bridge] table: None when the key is missing.
\* (Only called on a document TomlWellFormed accepts.)
FieldText(text, key) ==
    IF KeyLines(text, key) = {} THEN None
    ELSE LET i == CHOOSE k \in KeyLines(text, key) : TRUE
         IN  ParseTomlString(SubSeq(text[i], 3, Len(text[i])))

TomlWellFormed(text) ==
    /\ Len(text) >= 1
    /\ text[1] = BridgeHeader
    /\ \A i \in 2..Len(text) :
          /\ Len(text[i]) >= 3
          /\ text[i][2] = "="
          /\ IsSome(ParseTomlString(SubSeq(text[i], 3, Len(text[i]))))
    /\ \A i, j \in 2..Len(text) : text[i][1] = text[j][1] => i = j
    /\ \A i \in KeyLines(text, "ip") :
          IsSome(StringToIp(ParseTomlString(SubSeq(text[i], 3, Len(text[i])))[1]))

\* toml::from_str: [ok, config]; a missing field of the table is None.
TomlFromStr(text) ==
    IF TomlWellFormed(text)
    THEN LET ipText == FieldText(text, "ip")
         IN  [ok |-> TRUE,
              config |-> [path |-> None,
                          bridge |-> [ip |-> IF IsSome(ipText)
                                             THEN StringToIp(ipText[1])
                                             ELSE None,
                                      username |-> FieldText(text, "username")]]]
    ELSE [ok |-> FALSE, config |-> DefaultConfig]

\* Config::read_file: [ok, config].
ReadFile(f) ==
    LET parsed == IF f.exists THEN TomlFromStr(f.text)
                  ELSE [ok |-> TRUE, config |-> DefaultConfig]
    IN  [ok |-> parsed.ok,
         config |-> [parsed.config EXCEPT !.path = Some(ConfigPath)]]

\* The file Config::save leaves when fs::write succeeds.
SavedFile(c) == [exists |-> TRUE, text |-> TomlToString(c)]

\* What Config::print writes: the path line on stderr, the document on stdout.
PrintedPath(c) == IF IsSome(c.path) THEN << <<"#", c.path[1]>> >> ELSE <<>>

----------------------------------------------------------------------------
(* Inputs: addresses, credentials, command lines, files found on disk.     *)

Addrs == {<<10, 0, 0, 5>>, <<192, 168, 1, 20>>}
Usernames == {<<"a">>, <<Quote, Backslash>>}
Ids == 1..MaxId
BriArgs == {80}

\* Command (main.rs): id, op and bri are 0, "none" and None where the
\* variant has no such field.
Cmds ==
    {[name |-> n, id |-> 0, op |-> "none", bri |-> None] :
        n \in {"pair", "config", "groups", "lights"}}
    \cup {[name |-> n, id |-> i, op |-> o, bri |-> None] :
            n \in {"group", "light"}, i \in Ids, o \in {"on", "off", "halloween"}}
    \cup {[name |-> n, id |-> i, op |-> "on", bri |-> Some(b)] :
            n \in {"group", "light"}, i \in Ids, b \in BriArgs}

\* Opt (main.rs)
Opts == [bridge : {None} \cup {Some(a) : a \in Addrs}, cmd : Cmds]

Option(S) == {None} \cup {Some(x) : x \in S}

AbsentFile == [exists |-> FALSE, text |-> <<>>]
\* What File::create leaves behind when the write after it fails.
TruncatedFile == [exists |-> TRUE, text |-> <<>>]
BadIpFile ==
    [exists |-> TRUE,
     text |-> <<BridgeHeader, <<"ip", "=">> \o TomlString(<<"a">>)>>]

\* The files an invocation may find: none, a malformed one, or one that an
\* earlier save wrote.
InitFiles ==
    {AbsentFile, TruncatedFile, BadIpFile}
    \cup {SavedFile([path |-> Some(ConfigPath), bridge |-> b]) :
            b \in [ip : Option(Addrs), username : Option(Usernames)]}

----------------------------------------------------------------------------
(* main (src/src/main.rs).                                                 *)

\* CommandLight::default(), .on(), .off(), .with_bri(b)
CommandLightDefault == [on |-> None, bri |-> None]
On(c) == [c EXCEPT !.on = Some(TRUE)]
Off(c) == [c EXCEPT !.on = Some(FALSE)]
WithBri(c, b) == [c EXCEPT !.bri = Some(b)]

\* A failing step: the error is returned (or the panic unwinds) out of main.
Fail(step, how) ==
    /\ pc' = "done"
    /\ outcome' = how
    /\ failedAt' = Some(step)

\* let mut config = Config::from_file()?;
FromFile ==
    /\ pc = "load"
    /\ \/ /\ ReadFile(file).ok
          /\ config' = ReadFile(file).config
          /\ loaded' = ReadFile(file).config
          /\ pc' = "resolve"
          /\ UNCHANGED <<outcome, failedAt>>
       \/ /\ ~ReadFile(file).ok
          /\ Fail("load", "err")
          /\ UNCHANGED <<config, loaded>>
       \/ /\ Fail("load", "err")
          /\ UNCHANGED <<config, loaded>>
    /\ UNCHANGED <<file, file0, opt, unauth_bridge, bridge, discoveries,
                   registrations, registered, writes, calls, sleeps,
                   request, sleeping, stdout, stderr, stdinReads>>

\* A resolution that lets the cached address win over the flag.
BridgeSourceCachedFirst(o, c) ==
    IF IsSome(c.bridge.ip) THEN "cached"
    ELSE IF IsSome(o.bridge) THEN "flag"
    ELSE "discover"

\* The match on opt.bridge and config.bridge.ip.
BridgeSource(o, c) ==
    IF IsSome(o.bridge) THEN "flag"
    ELSE IF IsSome(c.bridge.ip) THEN "cached"
    ELSE "discover"

\* Bridge::for_ip(ip)
ForIp(ip) == [ip |-> ip]

\* let unauth_bridge = match opt.bridge { ... };
ResolveBridge ==
    /\ pc = "resolve"
    /\ \/ /\ BridgeSource(opt, config) = "flag"
          /\ unauth_bridge' = Some(ForIp(opt.bridge[1]))
          /\ pc' = "authenticate"
          /\ UNCHANGED <<discoveries, outcome, failedAt>>
       \/ /\ BridgeSource(opt, config) = "cached"
          /\ unauth_bridge' = Some(ForIp(config.bridge.ip[1]))
          /\ pc' = "authenticate"
          /\ UNCHANGED <<discoveries, outcome, failedAt>>
       \/ /\ BridgeSource(opt, config) = "discover"
          /\ discoveries' = discoveries + 1
          /\ \/ /\ \E ip \in Addrs : unauth_bridge' = Some(ForIp(ip))
                /\ pc' = "authenticate"
                /\ UNCHANGED <<outcome, failedAt>>
             \/ /\ Fail("discover", "panic")
                /\ UNCHANGED unauth_bridge
    /\ UNCHANGED <<file, file0, opt, config, loaded, bridge, registrations,
                   registered, writes, calls, sleeps, request, sleeping, stdout,
                   stderr, stdinReads>>

\* A main that pairs on every invocation.
NeedsPairingAlways(cmd, c) == TRUE

\* A main that skips the pairing of `pair` when a username is cached.
NeedsPairingOnlyWithoutUsername(cmd, c) == IsNone(c.bridge.username)

\* if let Command::Pair = opt.cmd { pair } else match config.bridge.username
NeedsPairing(cmd, c) == cmd.name = "pair" \/ IsNone(c.bridge.username)

\* unauth_bridge.with_user(username)
WithUser(u, username) == [ip |-> u.ip, username |-> username]

\* let bridge = if let Command::Pair = opt.cmd { ... } else { ... };
Authenticate ==
    /\ pc = "authenticate"
    /\ IF NeedsPairing(opt.cmd, config)
       THEN /\ pc' = "pair_prompt"
            /\ UNCHANGED bridge
       ELSE /\ bridge' = Some(WithUser(unauth_bridge[1], config.bridge.username[1]))
            /\ pc' = "dispatch"
    /\ UNCHANGED <<file, file0, opt, outcome, failedAt, config, loaded,
                   unauth_bridge, discoveries, registrations, registered,
                   writes, calls, sleeps, request, sleeping, stdout, stderr,
          stdinReads>>

PromptLines(u) ==
    << <<"Discovered Philips Hue bridge at">> \o IpToString(u.ip),
       <<"To pair, press the button on your bridge now.">>,
       <<"Then, press any key to continue pairing ...">> >>

\* pair: the prompt and the blocking read of one line.
PairPrompt ==
    /\ pc = "pair_prompt"
    /\ stderr' = stderr \o PromptLines(unauth_bridge[1])
    /\ stdinReads' = stdinReads + 1
    /\ \/ /\ pc' = "pair_register"
          /\ UNCHANGED <<outcome, failedAt>>
       \/ Fail("read_line", "panic")
    /\ UNCHANGED <<file, file0, opt, config, loaded, unauth_bridge, bridge,
                   discoveries, registrations, registered, writes, calls,
                   sleeps, request, sleeping, stdout>>

\* The Bridge of a successful register_user: the address is the one the
\* request went to, the username the one the bridge answered.
RegisterUser(u, username) == [ip |-> u.ip, username |-> username]

\* A pair that sends the registration again when it was rejected.
PairRegisterRetry ==
    /\ pc = "pair_register"
    /\ stderr' = Append(stderr, <<"Registering user ...">>)
    /\ registrations' = registrations + 1
    /\ registrations < 2
    /\ \/ /\ \E u \in Usernames :
                registered' = Some(RegisterUser(unauth_bridge[1], u))
          /\ pc' = "pair_save"
          /\ UNCHANGED <<outcome, failedAt>>
       \/ /\ pc' = "pair_register"
          /\ failedAt' = Some("register")
          /\ UNCHANGED <<outcome, registered>>
    /\ UNCHANGED <<file, file0, opt, config, loaded, unauth_bridge, bridge,
                   discoveries, writes, calls, sleeps, request, sleeping, stdout,
                   stdinReads>>

\* A pair that goes on to the command when registration was rejected.
PairRegisterSwallow ==
    /\ pc = "pair_register"
    /\ stderr' = Append(stderr, <<"Registering user ...">>)
    /\ registrations' = registrations + 1
    /\ \/ /\ \E u \in Usernames :
                registered' = Some(RegisterUser(unauth_bridge[1], u))
          /\ pc' = "pair_save"
          /\ UNCHANGED <<outcome, failedAt, bridge>>
       \/ /\ pc' = "dispatch"
          /\ bridge' = Some(WithUser(unauth_bridge[1], <<>>))
          /\ UNCHANGED <<outcome, failedAt, registered>>
    /\ UNCHANGED <<file, file0, opt, config, loaded, unauth_bridge,
                   discoveries, writes, calls, sleeps, request, sleeping, stdout,
                   stdinReads>>

\* pair: let bridge = unauth_bridge.register_user("blilys")?;
PairRegister ==
    /\ pc = "pair_register"
    /\ stderr' = Append(stderr, <<"Registering user ...">>)
    /\ registrations' = registrations + 1
    /\ \/ /\ \E u \in Usernames :
                registered' = Some(RegisterUser(unauth_bridge[1], u))
          /\ pc' = "pair_save"
          /\ UNCHANGED <<outcome, failedAt>>
       \/ /\ Fail("register", "err")
          /\ UNCHANGED registered
    /\ UNCHANGED <<file, file0, opt, config, loaded, unauth_bridge, bridge,
                   discoveries, writes, calls, sleeps, request, sleeping, stdout,
                   stdinReads>>

\* config.bridge.ip = Some(bridge.ip); config.bridge.username = Some(...)
Paired(c, b) ==
    [c EXCEPT !.bridge = [ip |-> Some(b.ip), username |-> Some(b.username)]]

\* A pair that writes the address first and the credential in a second
\* write, which may fail.
PairSaveIpFirst ==
    /\ pc = "pair_save"
    /\ stderr' = stderr \o << <<"Pairing complete.">>, <<"Saving configuration ...">> >>
    /\ config' = Paired(config, registered[1])
    /\ writes' = writes + 1
    /\ \/ /\ file' = SavedFile(config')
          /\ pc' = "pair_print"
          /\ UNCHANGED <<outcome, failedAt>>
       \/ /\ file' = SavedFile([config' EXCEPT !.bridge.username = None])
          /\ Fail("save", "err")
    /\ UNCHANGED <<file0, opt, loaded, unauth_bridge, bridge, discoveries,
                   registrations, registered, calls, sleeps, request, sleeping,
                   stdout, stdinReads>>

\* A pair that stores the new credential and keeps the address it loaded.
PairSaveKeepsCachedIp ==
    /\ pc = "pair_save"
    /\ stderr' = stderr \o << <<"Pairing complete.">>, <<"Saving configuration ...">> >>
    /\ config' = [config EXCEPT !.bridge.username = Some(registered[1].username)]
    /\ writes' = writes + 1
    /\ \/ /\ file' = SavedFile(config')
          /\ pc' = "pair_print"
          /\ UNCHANGED <<outcome, failedAt>>
       \/ /\ file' \in {file, TruncatedFile}
          /\ Fail("save", "err")
    /\ UNCHANGED <<file0, opt, loaded, unauth_bridge, bridge, discoveries,
                   registrations, registered, calls, sleeps, request, sleeping,
                   stdout, stdinReads>>

\* pair: both fields are set in memory, then config.save()? writes the file
\* once.  fs::write is File::create and write_all: when it fails the file is
\* as it was (create failed) or truncated (the write failed).
PairSave ==
    /\ pc = "pair_save"
    /\ stderr' = stderr \o << <<"Pairing complete.">>, <<"Saving configuration ...">> >>
    /\ config' = Paired(config, registered[1])
    /\ writes' = writes + 1
    /\ \/ /\ file' = SavedFile(config')
          /\ pc' = "pair_print"
          /\ UNCHANGED <<outcome, failedAt>>
       \/ /\ file' \in {file, TruncatedFile}
          /\ Fail("save", "err")
    /\ UNCHANGED <<file0, opt, loaded, unauth_bridge, bridge, discoveries,
                   registrations, registered, calls, sleeps, request, sleeping,
                   stdout, stdinReads>>

\* pair: config.print()?; Ok(bridge)
PairPrint ==
    /\ pc = "pair_print"
    /\ stderr' = stderr \o PrintedPath(config)
    /\ stdout' = Append(stdout, TomlToString(config))
    /\ bridge' = registered
    /\ pc' = "dispatch"
    /\ UNCHANGED <<file, file0, opt, outcome, failedAt, config, loaded,
                   unauth_bridge, discoveries, registrations, registered,
                   writes, calls, sleeps, request, sleeping, stdinReads>>

\* The process returns Ok(()) from main.
Exit ==
    /\ pc' = "done"
    /\ outcome' = "ok"
    /\ UNCHANGED failedAt

\* Command::Pair => {}
CmdPair ==
    /\ pc = "dispatch"
    /\ opt.cmd.name = "pair"
    /\ Exit
    /\ UNCHANGED <<file, file0, opt, config, loaded, unauth_bridge, bridge,
                   discoveries, registrations, registered, writes, calls,
                   sleeps, request, sleeping, stdout, stderr, stdinReads>>

\* Command::Config => config.print()?
CmdConfig ==
    /\ pc = "dispatch"
    /\ opt.cmd.name = "config"
    /\ stderr' = stderr \o PrintedPath(config)
    /\ stdout' = Append(stdout, TomlToString(config))
    /\ Exit
    /\ UNCHANGED <<file, file0, opt, config, loaded, unauth_bridge, bridge,
                   discoveries, registrations, registered, writes, calls,
                   sleeps, request, sleeping, stdinReads>>

\* A light/group call is sent to the bridge; main blocks until the reply.
Request(fn, id, command) == [fn |-> fn, id |-> id, on |-> command.on, bri |-> command.bri]

Send(fn, id, command, await) ==
    /\ calls' = calls + 1
    /\ request' = Some(Request(fn, id, command))
    /\ pc' = await

\* Command::Groups and Command::Lights: bridge.get_all_groups()? or
\* bridge.get_all_lights()?, then the listing.
CmdList ==
    /\ pc = "dispatch"
    /\ opt.cmd.name \in {"groups", "lights"}
    /\ Send(IF opt.cmd.name = "groups" THEN "get_all_groups" ELSE "get_all_lights",
            0, CommandLightDefault, "await_list")
    /\ UNCHANGED <<file, file0, opt, outcome, failedAt, config, loaded,
                   unauth_bridge, bridge, discoveries, registrations,
                   registered, writes, sleeps, sleeping, stdout, stderr,
                   stdinReads>>

\* str::parse::<usize>() succeeds on a non-empty run of digits.
IsNumber(t) == Len(t) >= 1 /\ \A i \in 1..Len(t) : IsDigit(t[i])

\* What the bridge may answer to get_all_groups: the groups with their
\* member light ids, which are strings.
GroupReplies ==
    {<<>>,
     <<[id |-> 1, name |-> <<"a">>, lights |-> << <<"2">>, <<"1", "0">>, <<"1">> >>]>>,
     <<[id |-> 1, name |-> <<"a">>, lights |-> << <<"1">> >>],
       [id |-> 2, name |-> <<"b">>, lights |-> << <<"x">> >>]>>}

\* What the bridge may answer to get_all_lights.
LightReplies ==
    {<<>>,
     <<[id |-> 1, name |-> <<"a">>, on |-> TRUE, bri |-> Some(80), hue |-> None],
       [id |-> 2, name |-> <<"b">>, on |-> FALSE, bri |-> None, hue |-> Some(10)]>>}

\* lights.sort_by_key(|l| l.parse::<usize>()): a stable sort on the number.
InsertByKey(sorted, l) ==
    LET before == Cardinality({i \in 1..Len(sorted) :
                                  StringToNat(sorted[i]) <= StringToNat(l)})
    IN  SubSeq(sorted, 1, before) \o <<l>> \o SubSeq(sorted, before + 1, Len(sorted))

RECURSIVE SortByKey(_)
SortByKey(ls) ==
    IF Len(ls) = 0 THEN <<>>
    ELSE InsertByKey(SortByKey(SubSeq(ls, 1, Len(ls) - 1)), ls[Len(ls)])

\* lights.join(", ")
RECURSIVE Join(_)
Join(ls) ==
    IF Len(ls) = 0 THEN <<>>
    ELSE IF Len(ls) = 1 THEN ls[1]
    ELSE ls[1] \o <<",", " ">> \o Join(Tail(ls))

\* One printed line per group: id, name, [sorted member ids].  (The field
\* widths of the format string are left out.)
GroupLine(g) == <<NatToString(g.id), g.name, Join(SortByKey(g.lights))>>

GroupOk(g) == \A j \in 1..Len(g.lights) : IsNumber(g.lights[j])

\* The lines printed for a reply: the loop stops, by the panic of expect, at
\* the first group with a member id that is not a number.
RECURSIVE GroupLines(_)
GroupLines(reply) ==
    IF Len(reply) = 0 \/ ~GroupOk(Head(reply)) THEN <<>>
    ELSE <<GroupLine(Head(reply))>> \o GroupLines(Tail(reply))

\* One printed line per light: id, name, on/off, bri or 0, hue or 0.
LightLine(l) ==
    <<NatToString(l.id), l.name, IF l.on THEN <<"on">> ELSE <<"off">>,
      NatToString(IF IsSome(l.bri) THEN l.bri[1] ELSE 0),
      NatToString(IF IsSome(l.hue) THEN l.hue[1] ELSE 0)>>

RECURSIVE LightLines(_)
LightLines(reply) ==
    IF Len(reply) = 0 THEN <<>>
    ELSE <<LightLine(Head(reply))>> \o LightLines(Tail(reply))

\* The bridge's reply to get_all_groups or get_all_lights, and the listing.
ListReply ==
    /\ pc = "await_list"
    /\ request' = None
    /\ \/ /\ opt.cmd.name = "groups"
          /\ \E reply \in GroupReplies :
                /\ stdout' = stdout \o GroupLines(reply)
                /\ IF \A i \in 1..Len(reply) : GroupOk(reply[i])
                   THEN Exit
                   ELSE Fail("expect", "panic")
       \/ /\ opt.cmd.name = "lights"
          /\ \E reply \in LightReplies : stdout' = stdout \o LightLines(reply)
          /\ Exit
       \/ /\ Fail("call", "err")
          /\ UNCHANGED stdout
    /\ UNCHANGED <<file, file0, opt, config, loaded, unauth_bridge, bridge,
                   discoveries, registrations, registered, writes, calls,
                   sleeps, sleeping, stderr, stdinReads>>

\* bridge.set_group_state / bridge.set_light_state
SetStateFn(cmd) ==
    IF cmd.name = "group" THEN "set_group_state" ELSE "set_light_state"

\* LightOperation::On { bri } and LightOperation::Off
LightCommand(cmd) ==
    IF cmd.op = "on"
    THEN (IF IsSome(cmd.bri) THEN WithBri(On(CommandLightDefault), cmd.bri[1])
          ELSE On(CommandLightDefault))
    ELSE Off(CommandLightDefault)

CmdSetState ==
    /\ pc = "dispatch"
    /\ opt.cmd.name \in {"group", "light"}
    /\ opt.cmd.op \in {"on", "off"}
    /\ Send(SetStateFn(opt.cmd), opt.cmd.id, LightCommand(opt.cmd), "await_once")
    /\ UNCHANGED <<file, file0, opt, outcome, failedAt, config, loaded,
                   unauth_bridge, bridge, discoveries, registrations,
                   registered, writes, sleeps, sleeping, stdout, stderr,
                   stdinReads>>

DimLow == 1
DimHigh == 50
BrightLow == 70
BrightHigh == 120
SleepLow == 200
SleepHigh == 1000

\* A draw from the closed range low..=high.
UniformInclusive(low, high) == low..high

\* Uniform::from(low..high): the half-open range.
Uniform(low, high) == low..(high - 1)

\* rand_bri(low, high)
RandBri(low, high) == Uniform(low, high)

\* LightOperation::Halloween, first half of the loop body.
HalloweenDim ==
    /\ pc \in {"dispatch", "halloween_dim"}
    /\ opt.cmd.name \in {"group", "light"}
    /\ opt.cmd.op = "halloween"
    /\ calls < MaxCalls
    /\ \E b \in RandBri(DimLow, DimHigh) :
          Send(SetStateFn(opt.cmd), opt.cmd.id, WithBri(CommandLightDefault, b),
               "await_dim")
    /\ UNCHANGED <<file, file0, opt, outcome, failedAt, config, loaded,
                   unauth_bridge, bridge, discoveries, registrations,
                   registered, writes, sleeps, sleeping, stdout, stderr,
                   stdinReads>>

\* LightOperation::Halloween, second half of the loop body.
HalloweenBright ==
    /\ pc = "halloween_bright"
    /\ calls < MaxCalls
    /\ \E b \in RandBri(BrightLow, BrightHigh) :
          Send(SetStateFn(opt.cmd), opt.cmd.id, WithBri(CommandLightDefault, b),
               "await_bright")
    /\ UNCHANGED <<file, file0, opt, outcome, failedAt, config, loaded,
                   unauth_bridge, bridge, discoveries, registrations,
                   registered, writes, sleeps, sleeping, stdout, stderr,
                   stdinReads>>

\* The bridge's reply to the call main is blocked in: Ok, and main goes on
\* (the one-shot commands return Ok(()), the loop sleeps), or Err, which `?`
\* returns from main.
BridgeReply ==
    /\ pc \in {"await_once", "await_dim", "await_bright"}
    /\ request' = None
    /\ \/ /\ pc = "await_once"
          /\ Exit
       \/ /\ pc # "await_once"
          /\ pc' = IF pc = "await_dim" THEN "sleep_after_dim" ELSE "sleep_after_bright"
          /\ UNCHANGED <<outcome, failedAt>>
       \/ Fail("call", "err")
    /\ UNCHANGED <<file, file0, opt, config, loaded, unauth_bridge, bridge,
                   discoveries, registrations, registered, writes, calls,
                   sleeps, sleeping, stdout, stderr, stdinReads>>

\* sleep_a_bit(): the duration is drawn and the thread sleeps.
SleepABit ==
    /\ pc \in {"sleep_after_dim", "sleep_after_bright"}
    /\ \E ms \in Uniform(SleepLow, SleepHigh) : sleeping' = Some(ms)
    /\ sleeps' = sleeps + 1
    /\ pc' = IF pc = "sleep_after_dim" THEN "asleep_after_dim" ELSE "asleep_after_bright"
    /\ UNCHANGED <<file, file0, opt, outcome, failedAt, config, loaded,
                   unauth_bridge, bridge, discoveries, registrations,
                   registered, writes, calls, request, stdout, stderr,
                   stdinReads>>

\* std::thread::sleep returns and the loop goes on.
Wake ==
    /\ pc \in {"asleep_after_dim", "asleep_after_bright"}
    /\ sleeping' = None
    /\ pc' = IF pc = "asleep_after_dim" THEN "halloween_bright" ELSE "halloween_dim"
    /\ UNCHANGED <<file, file0, opt, outcome, failedAt, config, loaded,
                   unauth_bridge, bridge, discoveries, registrations,
                   registered, writes, calls, sleeps, request, stdout, stderr,
                   stdinReads>>

\* The user runs the program again, on the file the last run left.
NewInvocation ==
    /\ pc = "done"
    /\ file0' = file
    /\ opt' \in Opts
    /\ pc' = "load"
    /\ outcome' = "running"
    /\ failedAt' = None
    /\ config' = DefaultConfig
    /\ loaded' = DefaultConfig
    /\ unauth_bridge' = None
    /\ bridge' = None
    /\ discoveries' = 0
    /\ registrations' = 0
    /\ registered' = None
    /\ writes' = 0
    /\ calls' = 0
    /\ sleeps' = 0
    /\ request' = None
    /\ sleeping' = None
    /\ stdout' = <<>>
    /\ stderr' = <<>>
    /\ stdinReads' = 0
    /\ UNCHANGED file

\* A process that has just started, on the file it finds.
Init ==
    /\ file \in InitFiles
    /\ file0 = file
    /\ opt \in Opts
    /\ pc = "load"
    /\ outcome = "running"
    /\ failedAt = None
    /\ config = DefaultConfig
    /\ loaded = DefaultConfig
    /\ unauth_bridge = None
    /\ bridge = None
    /\ discoveries = 0
    /\ registrations = 0
    /\ registered = None
    /\ writes = 0
    /\ calls = 0
    /\ sleeps = 0
    /\ request = None
    /\ sleeping = None
    /\ stdout = <<>>
    /\ stderr = <<>>
    /\ stdinReads = 0

Next ==
    \/ FromFile
    \/ ResolveBridge
    \/ Authenticate
    \/ PairPrompt
    \/ PairRegister
    \/ PairSave
    \/ PairPrint
    \/ CmdPair
    \/ CmdConfig
    \/ CmdList
    \/ ListReply
    \/ CmdSetState
    \/ HalloweenDim
    \/ HalloweenBright
    \/ BridgeReply
    \/ SleepABit
    \/ Wake
    \/ NewInvocation

Spec == Init /\ [][Next]_vars

----------------------------------------------------------------------------
(* Save then load, on its own: a Configuration is saved to the path and    *)
(* read back with Config::read_file.                                       *)

RtChars == {"a", Quote, Backslash}

RECURSIVE StringsUpTo(_)
StringsUpTo(n) ==
    IF n = 0 THEN {<<>>}
    ELSE LET shorter == StringsUpTo(n - 1)
         IN  shorter \cup {Append(t, c) : t \in shorter, c \in RtChars}

RtAddrs == Addrs \cup {<<0, 0, 0, 0>>, <<255, 255, 255, 255>>}

RtConfigs ==
    {[path |-> Some(ConfigPath), bridge |-> b] :
        b \in [ip : Option(RtAddrs), username : Option(StringsUpTo(MaxUserLen))]}

InitRT ==
    /\ file = AbsentFile
    /\ file0 = AbsentFile
    /\ opt \in {o \in Opts : o.cmd.name = "config" /\ IsNone(o.bridge)}
    /\ pc = "rt_save"
    /\ outcome = "running"
    /\ failedAt = None
    /\ config \in RtConfigs
    /\ loaded = DefaultConfig
    /\ unauth_bridge = None
    /\ bridge = None
    /\ discoveries = 0
    /\ registrations = 0
    /\ registered = None
    /\ writes = 0
    /\ calls = 0
    /\ sleeps = 0
    /\ request = None
    /\ sleeping = None
    /\ stdout = <<>>
    /\ stderr = <<>>
    /\ stdinReads = 0

\* Config::save: fs::write(path, toml::to_string(self)?)
RtSave ==
    /\ pc = "rt_save"
    /\ file' = SavedFile(config)
    /\ writes' = writes + 1
    /\ pc' = "rt_load"
    /\ UNCHANGED <<file0, opt, outcome, failedAt, config, loaded,
                   unauth_bridge, bridge, discoveries, registrations,
                   registered, calls, sleeps, request, sleeping, stdout,
                   stderr, stdinReads>>

\* Config::read_file on the file just written.
RtLoad ==
    /\ pc = "rt_load"
    /\ loaded' = ReadFile(file).config
    /\ outcome' = IF ReadFile(file).ok THEN "ok" ELSE "err"
    /\ pc' = "rt_done"
    /\ UNCHANGED <<file, file0, opt, failedAt, config, unauth_bridge, bridge,
                   discoveries, registrations, registered, writes, calls,
                   sleeps, request, sleeping, stdout, stderr, stdinReads>>

\* main.rs, the next invocation: the cached address and username are used.
RtAttach ==
    /\ pc = "rt_done"
    /\ outcome = "ok"
    /\ BridgeSource(opt, loaded) = "cached"
    /\ ~NeedsPairing(opt.cmd, loaded)
    /\ unauth_bridge' = Some(ForIp(loaded.bridge.ip[1]))
    /\ bridge' = Some(WithUser(ForIp(loaded.bridge.ip[1]), loaded.bridge.username[1]))
    /\ pc' = "rt_attached"
    /\ UNCHANGED <<file, file0, opt, outcome, failedAt, config, loaded,
                   discoveries, registrations, registered, writes, calls,
                   sleeps, request, sleeping, stdout, stderr, stdinReads>>

NextRT == RtSave \/ RtLoad \/ RtAttach

SpecRT == InitRT /\ [][NextRT]_vars

----------------------------------------------------------------------------
(* The claims.                                                             *)

LightGroupCmd == opt.cmd.name \in {"lights", "groups", "light", "group"}
HalloweenCmd == opt.cmd.op = "halloween"
\* The Configuration the file holds now, as the next load would read it.
PersistedIn(f) == ReadFile(f).config.bridge
Persisted == PersistedIn(file)
PromptShown ==
    \E i \in 1..Len(stderr) :
        stderr[i] = <<"To pair, press the button on your bridge now.">>

PairBeforeLightOps ==
    IsNone(loaded.bridge.username) /\ LightGroupCmd =>
        /\ calls > 0 =>
              /\ stdinReads = 1
              /\ registrations = 1
              /\ IsSome(registered)
              /\ bridge = registered
              /\ writes = 1
              /\ file = SavedFile(config)
        /\ pc = "dispatch" => IsSome(registered) /\ bridge = registered /\ calls = 0
        /\ outcome = "ok" => calls >= 1 /\ IsSome(registered)

\* C2 witness: a light command run to success on a Configuration that had
\* no credential.
PairBeforeLightOpsWitness ==
    /\ IsNone(loaded.bridge.username)
    /\ opt.cmd.name = "light"
    /\ opt.cmd.op = "on"
    /\ calls = 1
    /\ outcome = "ok"

\* C3: the config command on a Configuration with no address and no
\* credential sends no registration request and issues no light/group call,
\* and prints the empty Configuration with the file path.
ConfigBeforePairingCallsNothing ==
    /\ opt.cmd.name = "config"
    /\ IsNone(loaded.bridge.ip)
    /\ IsNone(loaded.bridge.username)
    => /\ registrations = 0
       /\ calls = 0
       /\ outcome = "ok" =>
             /\ stdout = <<TomlToString(DefaultConfig)>>
             /\ stderr = << <<"#", ConfigPath>> >>

FlagNeverPersisted ==
    IsSome(opt.bridge) /\ file # file0 /\ ReadFile(file).ok
        => Persisted.ip # opt.bridge

\* C5 amended: with --bridge given, the file is changed by nothing but the
\* pairing's save, an invocation that does not pair leaves it unchanged, and
\* a pairing that saves stores the flag's address.
FlagPersistedOnlyByPairing ==
    [][/\ IsSome(opt.bridge) /\ file' # file
             => /\ pc = "pair_save"
                /\ IsSome(registered)
                /\ ReadFile(file').ok => PersistedIn(file').ip = opt.bridge
       /\ IsSome(opt'.bridge) /\ stdinReads' = 0 => file' = file0'
      ]_vars

\* C5 witness: pairing with --bridge has saved over a Configuration that
\* cached another address.
FlagPersistedWitness ==
    /\ IsSome(opt.bridge)
    /\ IsSome(loaded.bridge.ip)
    /\ loaded.bridge.ip # opt.bridge
    /\ file # file0
    /\ ReadFile(file).ok

\* C6: the file is written at most once per invocation and only after a
\* successful registration; with a credential loaded and a command other
\* than pair the file is unchanged, whatever the command and its outcome.
WrittenOnlyByPairing ==
    /\ writes <= 1
    /\ file # file0 => writes = 1 /\ IsSome(registered)
    /\ IsSome(loaded.bridge.username) /\ opt.cmd.name # "pair"
          => file = file0 /\ writes = 0 /\ registrations = 0

\* C6 witness: a light command whose bridge call failed, on a Configuration
\* with a credential.
WrittenOnlyByPairingWitness ==
    /\ IsSome(loaded.bridge.username)
    /\ opt.cmd.name = "light"
    /\ failedAt = Some("call")

\* C7: saving any Configuration and loading the file back succeeds and
\* yields the same address and the same credential, so the credential the
\* next invocation attaches is the one that was saved.
SaveLoadRoundTrip ==
    /\ pc \in {"rt_done", "rt_attached"} =>
        /\ outcome = "ok"
        /\ loaded.bridge.ip = config.bridge.ip
        /\ loaded.bridge.username = config.bridge.username
        /\ loaded.path = Some(ConfigPath)
    /\ pc = "rt_attached" =>
          /\ IsSome(config.bridge.ip) /\ IsSome(config.bridge.username)
          /\ bridge = Some([ip |-> config.bridge.ip[1],
                            username |-> config.bridge.username[1]])

\* C7 witness: a Configuration whose credential holds a backslash and a
\* quote has been saved, loaded and attached.
SaveLoadRoundTripWitness ==
    /\ pc = "rt_attached"
    /\ config.bridge.username = Some(<<Backslash, Quote>>)

\* C8: for pair the pairing flow runs exactly once, cached credential or
\* not, and its result is the authenticated bridge; for another command with
\* a cached credential the credential is attached with no prompt, no
\* registration and no bridge call before the command's own.
CredentialResolution ==
    /\ opt.cmd.name = "pair" =>
          /\ stdinReads <= 1 /\ registrations <= 1
          /\ pc \in {"pair_register", "pair_save", "pair_print", "dispatch"}
                => stdinReads = 1
          /\ pc \in {"pair_save", "pair_print", "dispatch"} => registrations = 1
          /\ pc = "dispatch" \/ outcome = "ok"
                => /\ stdinReads = 1
                   /\ registrations = 1
                   /\ IsSome(registered)
                   /\ bridge = registered
          /\ calls = 0
    /\ opt.cmd.name # "pair" /\ IsSome(loaded.bridge.username) =>
          /\ stdinReads = 0
          /\ registrations = 0
          /\ ~PromptShown
          /\ IsSome(bridge) =>
                bridge[1] = WithUser(unauth_bridge[1], loaded.bridge.username[1])
          /\ pc = "dispatch" => IsSome(bridge) /\ calls = 0

\* C8 witness: pair has run to success on a Configuration that already had
\* a credential, and the bridge answered with another one.
CredentialResolutionWitness ==
    /\ opt.cmd.name = "pair"
    /\ IsSome(loaded.bridge.username)
    /\ outcome = "ok"
    /\ loaded.bridge.username # Some(registered[1].username)

\* C9: a failed step ends the process with a failure outcome; after it no
\* bridge call is issued, no registration is sent and the file is not
\* written in that invocation; registration is sent at most once.
NoRetryAfterFailure ==
    /\ [](/\ IsSome(failedAt) => pc = "done" /\ outcome \in {"err", "panic"}
          /\ outcome \in {"err", "panic"} => pc = "done" /\ IsSome(failedAt)
          /\ registrations <= 1)
    /\ [][IsSome(failedAt) =>
             \/ pc' = "load" /\ file' = file
             \/ UNCHANGED <<calls, registrations, writes, file, request,
                            failedAt, outcome>>]_vars

\* C9 witness: the second call of a Halloween loop failed.
NoRetryAfterFailureWitness ==
    /\ HalloweenCmd
    /\ calls = 2
    /\ failedAt = Some("call")

\* C10: in Halloween mode the commands alternate dim, bright, dim, ...
\* starting with dim, each targets the requested id and sets only the
\* brightness, dim in [1,50) and bright in [70,120), and each is followed by
\* exactly one pause in [200,1000) before the next.
HalloweenAlternates ==
    HalloweenCmd =>
        /\ sleeps <= calls /\ calls <= sleeps + 1
        /\ IsSome(request) =>
              /\ request[1].fn = (IF opt.cmd.name = "group" THEN "set_group_state"
                                  ELSE "set_light_state")
              /\ request[1].id = opt.cmd.id
              /\ IsNone(request[1].on)
              /\ IsSome(request[1].bri)
              /\ calls % 2 = 1 => request[1].bri[1] >= 1 /\ request[1].bri[1] < 50
              /\ calls % 2 = 0 => request[1].bri[1] >= 70 /\ request[1].bri[1] < 120
              /\ sleeps = calls - 1
              /\ IsNone(sleeping)
        /\ IsSome(sleeping) =>
              /\ sleeping[1] >= 200 /\ sleeping[1] < 1000
              /\ sleeps = calls
        /\ pc \in {"halloween_dim", "halloween_bright"} => sleeps = calls
        /\ pc = "halloween_dim" => calls % 2 = 0
        /\ pc = "halloween_bright" => calls % 2 = 1

\* C10 witness: the third command of a group's Halloween loop, a dim one
\* after a bright one, is at the bridge.
HalloweenAlternatesWitness ==
    /\ HalloweenCmd
    /\ opt.cmd.name = "group"
    /\ calls = 3
    /\ IsSome(request)
    /\ request[1].bri = Some(49)

====
